---- MODULE Spec2Model ----
(***************************************************************************)
(* Resistance cascade simulation: Citizens and Security actors on a        *)
(* toroidal grid, stepped by a two-phase (step, then advance) scheduler.   *)
(* Modelled from src/resistance_cascade/{model,agent,random_walker,        *)
(* scheduler}.py.  One action per handler: ResistanceCascade.step is split *)
(* at the scheduler's calls of each actor's step() and advance().          *)
(***************************************************************************)
EXTENDS Integers, FiniteSets, Sequences, TLC

(* ------------------------------------------------------------------ *)
(* Bounds of the model                                                 *)
(* ------------------------------------------------------------------ *)
\* completed step() calls explored (model.iteration is unbounded in the code)
MaxSteps == 3
\* the max_jail_term input explored: sentences are drawn from 0..max_jail_term
max_jail_term == 1
\* the max_iters input explored
max_iters == 2
\* largest grid width explored (widths 2..MaxWidth)
MaxWidth == 3
\* most neighbours within vision of the Citizen followed on its own
MaxNeighbors == 1

(* ------------------------------------------------------------------ *)
(* Constructor inputs                                                  *)
(* ------------------------------------------------------------------ *)
\* height parameter of ResistanceCascade.__init__ : the grid is a ring
height == 1
\* values of round(width * height * citizen_density) explored
CitizenCounts == 0..2
\* values of round(width * height * security_density) explored
SecurityCounts == 0..1

\* quantised values of sigmoid(..) - arrest_prob and of the uniform draw
\* random_activation: a level of 1 exceeds the draw 0 only
Levels == 0..1
Draws == 0..1
\* self.sigmoid(self.threshold), on the scale of sigmoid(opinion)
threshold_constant_sigmoid == 1
\* quantised values of sigmoid(opinion): at and above the constant
Activations == threshold_constant_sigmoid..(threshold_constant_sigmoid + 1)

\* Python's None for a position (agent.pos of an actor that is off the grid)
NoPos == << >>

VARIABLES
    width,                    \* model.width
    citizen_count,            \* model.citizen_count
    security_count,           \* model.security_count
    multiple_agents_per_cell, \* model.multiple_agents_per_cell
    movement,                 \* model.movement, handed to every actor
    grid,                     \* model.grid : cell -> set of actors in it
    pos,                      \* agent.pos
    condition,                \* agent.condition
    update_condition,         \* Citizen._update_condition
    jail_sentence,            \* Citizen.jail_sentence
    flip,                     \* Citizen.flip : "None", "True", "False"
    ever_flipped,             \* Citizen.ever_flipped
    activation,               \* Citizen.activation
    running,                  \* model.running
    revolution,               \* model.revolution
    iteration,                \* model.iteration
    pc,                       \* where the current step() call stands
    idx,                      \* the scheduler's position in its registry
    raised,                   \* exception that ended the last call
    agents,                   \* schedule._agents : the flat registry
    agents_by_type,           \* schedule.agents_by_type : type -> registered
    last_call,                \* the last scheduler call and what it returned
    citizen,                  \* one Citizen object, every attribute kept
    args                      \* arguments of a constructor call under way

params == <<width, citizen_count, security_count, multiple_agents_per_cell,
           movement>>
actors == <<grid, pos, condition, update_condition, jail_sentence, flip,
            ever_flipped, activation>>
control == <<running, revolution, iteration, pc, idx, raised>>
registry == <<agents, agents_by_type>>
unit == <<last_call, citizen, args>>
vars == <<params, actors, control, registry, unit>>

(* ------------------------------------------------------------------ *)
(* Registry: unique ids in next_id() order, Citizens first             *)
(* ------------------------------------------------------------------ *)
NumAgents == citizen_count + security_count
Agents == 1..NumAgents
\* (variant: the Security actors created and registered first)
Citizens_RegisteredLast == (security_count + 1)..NumAgents

\* the Citizens are created, and registered, before the Security actors
Citizens == 1..citizen_count
Securities == Agents \ Citizens
IsCitizen(a) == a \in Citizens
IsSecurity(a) == a \in Securities

(* ------------------------------------------------------------------ *)
(* SimultaneousActivationByTypeFiltered: the two registries            *)
(* ------------------------------------------------------------------ *)
\* type(agent)
TypeOf(a) == IF IsCitizen(a) THEN "Citizen" ELSE "Security"
\* the classes a caller can pass as type_class
Types == {"Citizen", "Security"}
\* filter_func: None (the empty tuple), or a predicate given by the set of
\* actors it accepts
FilterFuncs == {<< >>} \cup { <<S>> : S \in SUBSET Agents }
\* filter_func is None or filter_func(agent)
Accepts(f, a) == f = << >> \/ a \in f[1]
\* no scheduler call made yet
NoCall == [op |-> "none"]
\* no constructor call under way
NoArgs == [width |-> 0]

\* the scheduler after __init__: both registries empty
EmptyRegistry == [agents |-> {}, agents_by_type |-> << >>]

\* agents_by_type[t] on a defaultdict(dict): a missing key is inserted
\* with an empty dict
Lookup(d, t) ==
    IF t \in DOMAIN d THEN d
    ELSE [k \in DOMAIN d \cup {t} |-> IF k = t THEN {} ELSE d[k]]

\* (variant: remove() leaves the type-indexed registry alone)
Removed_FlatOnly(reg, a) == [reg EXCEPT !.agents = @ \ {a}]

\* add(agent), past the duplicate check of the base scheduler
Added(reg, a) ==
    [agents |-> reg.agents \cup {a},
     agents_by_type |->
        [Lookup(reg.agents_by_type, TypeOf(a)) EXCEPT ![TypeOf(a)] = @ \cup {a}]]

\* remove(agent), past the base scheduler's del
Removed(reg, a) ==
    [agents |-> reg.agents \ {a},
     agents_by_type |->
        [Lookup(reg.agents_by_type, TypeOf(a)) EXCEPT ![TypeOf(a)] = @ \ {a}]]

\* the count get_type_count(type_class, filter_func) returns
TypeCount(d, t, f) ==
    Cardinality({ a \in Lookup(d, t)[t] : Accepts(f, a) })

(* ------------------------------------------------------------------ *)
(* The grid (mesa MultiGrid, torus=True) as the code uses it           *)
(* ------------------------------------------------------------------ *)
Cells == (0..(width - 1)) \X (0..(height - 1))

\* grid.get_neighborhood(pos, moore=True, include_center, radius)
Neighborhood(p, radius, include_center) ==
    LET around == { <<(p[1] + dx) % width, (p[2] + dy) % height>> :
                      dx \in (0 - radius)..radius, dy \in (0 - radius)..radius }
    IN  IF include_center THEN around ELSE around \ {p}

\* grid.get_cell_list_contents(cells)
CellListContents(g, cells) == UNION { g[c] : c \in cells }

\* grid.is_cell_empty(cell)
IsCellEmpty(g, c) == g[c] = {}

\* grid.empties
Empties(g) == { c \in Cells : IsCellEmpty(g, c) }

\* grid.place_agent(agent, pos)
PlaceAgent(w, a, c) ==
    [grid |-> [w.grid EXCEPT ![c] = @ \cup {a}],
     pos  |-> [w.pos EXCEPT ![a] = c]]

\* grid.remove_agent(agent)
RemoveAgent(w, a) ==
    [grid |-> [w.grid EXCEPT ![w.pos[a]] = @ \ {a}],
     pos  |-> [w.pos EXCEPT ![a] = NoPos]]

\* grid.move_agent(agent, pos)
MoveAgent(w, a, c) == PlaceAgent(RemoveAgent(w, a), a, c)

\* (variant: the candidate cells are never filtered)
ValidMoves_Unfiltered(w, next_moves) == next_moves

\* random_move, lines 48-51: only empty cells when cells are exclusive
ValidMoves(w, next_moves) ==
    IF multiple_agents_per_cell THEN next_moves
    ELSE { c \in next_moves : IsCellEmpty(w.grid, c) }

\* RandomWalker.random_move: the set of worlds it can leave behind
RandomMove(w, a) ==
    LET next_moves == Neighborhood(w.pos[a], 1, TRUE)
        valid == ValidMoves(w, next_moves)
    IN  IF valid = {} THEN {w}
        ELSE { MoveAgent(w, a, c) : c \in valid }

World == [grid |-> grid, pos |-> pos]

(* ------------------------------------------------------------------ *)
(* Reporters                                                           *)
(* ------------------------------------------------------------------ *)
CountCondition(c) == Cardinality({ a \in Citizens : condition[a] = c })
count_active == CountCondition("Active")
count_oppose == CountCondition("Oppose")
count_support == CountCondition("Support")
count_jail == CountCondition("Jailed")

\* (variant: the Jailed left out of the numerator)
active_or_jailed_agents_ActiveOnly ==
    Cardinality({ a \in Agents : IsCitizen(a) /\ condition[a] = "Active" })

\* the numerator of step()'s proportion_active_or_jailed
active_or_jailed_agents ==
    Cardinality({ a \in Agents : IsCitizen(a)
                    /\ (condition[a] = "Active" \/ condition[a] = "Jailed") })

\* proportion_active_or_jailed >= 0.95, citizen_count # 0
StopConditionMet == active_or_jailed_agents * 100 >= 95 * citizen_count

(* ------------------------------------------------------------------ *)
(* One Citizen, attribute by attribute                                 *)
(* ------------------------------------------------------------------ *)
\* the threshold parameter (3.66356), rounded
threshold == 4
\* draws of random.gauss(0, self.epsilon): the error term, of either sign
Epsilons == {0 - 1, 1}
\* standard normal deviates z behind random.gauss(mu, sigma) = mu + z * sigma
Deviates == (0 - 1)..1
\* random.gauss(mu, sigma)
Gauss(mu, sigma) == { mu + z * sigma : z \in Deviates }

Min(x, y) == IF x <= y THEN x ELSE y
Max(x, y) == IF x >= y THEN x ELSE y

\* what a neighbour within vision can be: a Citizen on the grid by its
\* condition, or a Security
NeighborKinds == {"Active", "Oppose", "Support", "Security"}
\* self.neighbors as update_neighbors can leave it: how many neighbours of
\* each kind it lists (their order in the list plays no part)
NeighborLists ==
    { n \in [NeighborKinds -> 0..MaxNeighbors] :
        n["Active"] + n["Oppose"] + n["Support"] + n["Security"] <= MaxNeighbors }
\* the empty list
NoNeighbors == [k \in NeighborKinds |-> 0]

\* no Citizen is followed
NoCitizen == [condition |-> "None"]

\* (variant: the two draws taken in the order drawn)
Thresholds_AsDrawn(t1, t2) == [oppose_threshold |-> t1, active_threshold |-> t2]

\* model.py lines 147-151: min and max of the two draws
Thresholds(t1, t2) ==
    [oppose_threshold |-> Min(t1, t2), active_threshold |-> Max(t1, t2)]

\* Citizen.__init__ on the values model.__init__ draws for it
NewCitizen(eps, t1, t2) ==
    [update_condition  |-> "None",
     epsilon           |-> eps,
     oppose_threshold  |-> Thresholds(t1, t2).oppose_threshold,
     active_threshold  |-> Thresholds(t1, t2).active_threshold,
     flip              |-> "None",
     ever_flipped      |-> FALSE,
     condition         |-> "Support",
     neighbors         |-> NoNeighbors,
     actives_in_vision |-> 1,
     opposed_in_vision |-> 0,
     support_in_vision |-> 0,
     security_in_vision |-> 0,
     activation        |-> "None",
     active_level      |-> "None",
     oppose_level      |-> "None",
     random_activation |-> "None",
     jail_sentence     |-> 0,
     on_grid           |-> TRUE]

\* number of neighbours of kind k in the list n
CountKind(n, k) == n[k]

\* (variant: the counters start as Citizen.__init__ leaves them)
count_neigbhors_FromInit(c) ==
    [c EXCEPT !.actives_in_vision = 1 + CountKind(c.neighbors, "Active"),
              !.opposed_in_vision = CountKind(c.neighbors, "Oppose"),
              !.support_in_vision = CountKind(c.neighbors, "Support"),
              !.security_in_vision = CountKind(c.neighbors, "Security")]

\* Citizen.count_neigbhors
count_neigbhors(c) ==
    [c EXCEPT !.actives_in_vision = 1 + CountKind(c.neighbors, "Active"),
              !.opposed_in_vision = CountKind(c.neighbors, "Oppose"),
              !.support_in_vision = 1 + CountKind(c.neighbors, "Support"),
              !.security_in_vision = CountKind(c.neighbors, "Security")]

\* (variant: the opposition level tested first)
PendingCondition_OpposeFirst(active_level, oppose_level, random_activation) ==
    IF oppose_level > random_activation THEN "Oppose"
    ELSE IF active_level > random_activation THEN "Active"
    ELSE "Support"

\* (variant: the final else branch missing, the pending condition stays None)
PendingCondition_NoElse(active_level, oppose_level, random_activation) ==
    IF active_level > random_activation THEN "Active"
    ELSE IF oppose_level > random_activation THEN "Oppose"
    ELSE "None"

\* Citizen.determine_condition, lines 172-181: the pending condition
PendingCondition(active_level, oppose_level, random_activation) ==
    IF active_level > random_activation THEN "Active"
    ELSE IF oppose_level > random_activation THEN "Oppose"
    ELSE "Support"

\* (variant: only a running sentence keeps a Citizen from deciding)
SkipsDecision_SentenceOnly(sentence, cond) == sentence > 0

\* Citizen.step, line 70: a jailed Citizen returns before it senses or decides
SkipsDecision(sentence, cond) == sentence > 0 \/ cond = "Jailed"

\* (variant: ever_flipped follows the latest decision only)
EverFlipped_Latest(was, flips) == flips

\* determine_condition, lines 173-175: ever_flipped is set with flip and
\* never cleared
EverFlipped(was, flips) == IF flips THEN TRUE ELSE was

\* Citizen.determine_condition, the levels and the draw given
determine_condition(c, act, al, ol, r) ==
    LET counted == count_neigbhors(c)
        new == PendingCondition(al, ol, r)
        flips == new = "Active" /\ c.update_condition # "Active"
    IN  [counted EXCEPT !.random_activation = r,
                        !.activation = act,
                        !.active_level = al,
                        !.oppose_level = ol,
                        !.flip = IF flips THEN "True" ELSE @,
                        !.ever_flipped = EverFlipped(@, flips),
                        !.update_condition = new]

\* RandomWalker.update_neighbors: the list read from the grid
update_neighbors(c, n) == [c EXCEPT !.neighbors = n]

(* ------------------------------------------------------------------ *)
(* Construction                                                        *)
(* ------------------------------------------------------------------ *)
\* (variant: no decision taken, the pending condition left as __init__ sets it)
PendingConditions_Undecided == {"None"}

\* what determine_condition can assign, over the levels and the draw
PendingConditions ==
    { PendingCondition(al, ol, r) : al \in Levels, ol \in Levels, r \in Draws }

\* placement loop of __init__: an empty cell while one is left and cells
\* are exclusive, any cell otherwise
ValidPlacement(p) ==
    \A a \in Agents :
        LET taken == { p[b] : b \in 1..(a - 1) }
        IN  multiple_agents_per_cell \/ taken = Cells \/ p[a] \notin taken

\* the model as __init__ leaves it, its arguments drawn from the given sets
Constructs(widths, citizen_counts, security_counts, multiples, movements) ==
    /\ width \in widths
    /\ citizen_count \in citizen_counts
    /\ security_count \in security_counts
    /\ multiple_agents_per_cell \in multiples
    /\ movement \in movements
    /\ pos \in [Agents -> Cells]
    /\ ValidPlacement(pos)
    /\ grid = [c \in Cells |-> { a \in Agents : pos[a] = c }]
    /\ condition = [a \in Agents |-> IF IsCitizen(a) THEN "Support" ELSE "Security"]
    /\ jail_sentence = [a \in Citizens |-> 0]
    \* initial decide-phase: determine_condition() without step()
    /\ update_condition \in [Citizens -> PendingConditions]
    /\ flip = [a \in Citizens |-> IF update_condition[a] = "Active" THEN "True" ELSE "None"]
    /\ ever_flipped = [a \in Citizens |-> update_condition[a] = "Active"]
    /\ activation \in [Citizens -> Activations]
    /\ running = TRUE
    /\ revolution = FALSE
    /\ iteration = 0
    \* datacollector.collect (line 246) calls speed_of_spread, which divides
    \* by citizen_count: with no Citizen the constructor raises
    /\ pc = (IF citizen_count = 0 THEN "init_raised" ELSE "idle")
    /\ idx = 0
    /\ raised = (IF citizen_count = 0 THEN "ZeroDivisionError" ELSE "none")
    \* schedule.add of every actor; line 240 looks agents_by_type[Citizen] up
    /\ agents = Agents
    /\ agents_by_type = [t \in { TypeOf(a) : a \in Agents } \cup {"Citizen"} |->
                            { a \in Agents : TypeOf(a) = t }]
    /\ last_call = NoCall
    /\ citizen = NoCitizen
    /\ args = NoArgs

\* movement keeps its default, True
Init == Constructs(2..MaxWidth, CitizenCounts, SecurityCounts, BOOLEAN, {TRUE})

(* ------------------------------------------------------------------ *)
(* Scheduler: SimultaneousActivation.step                              *)
(* ------------------------------------------------------------------ *)
\* (variant: sequential activation, each actor commits right after deciding)
AfterStep_Sequential(a) == pc' = "advance" /\ idx' = a

\* after actor a's step(): the next actor's step(), or the first advance()
AfterStep(a) ==
    IF a < NumAgents THEN pc' = "step" /\ idx' = a + 1
    ELSE pc' = "advance" /\ idx' = 1

\* after actor a's advance(): the next actor's advance(), or back in model.step
AfterAdvance(a) ==
    IF a < NumAgents THEN pc' = "advance" /\ idx' = a + 1
    ELSE pc' = "tail" /\ idx' = 0

\* an exception leaves step() at once
Raise(e) == pc' = "idle" /\ idx' = 0 /\ raised' = e

\* model.step() is called
StepCall ==
    /\ pc = "idle"
    /\ iteration < MaxSteps
    /\ raised' = "none"
    /\ IF NumAgents = 0 THEN pc' = "tail" /\ idx' = 0
       ELSE pc' = "step" /\ idx' = 1
    /\ UNCHANGED <<registry, unit, params, actors, running, revolution, iteration>>

(* ------------------------------------------------------------------ *)
(* Citizen                                                             *)
(* ------------------------------------------------------------------ *)
\* Citizen.step (with determine_condition)
CitizenStep(a) ==
    /\ pc = "step" /\ idx = a /\ IsCitizen(a)
    /\ IF SkipsDecision(jail_sentence[a], condition[a])
       THEN /\ flip' = [flip EXCEPT ![a] = "False"]
            /\ UNCHANGED <<update_condition, ever_flipped, activation>>
       ELSE \E new \in PendingConditions, act \in Activations :
            LET flips == new = "Active" /\ update_condition[a] # "Active"
            IN  /\ activation' = [activation EXCEPT ![a] = act]
                /\ flip' = [flip EXCEPT ![a] = IF flips THEN "True" ELSE "False"]
                /\ ever_flipped' = [ever_flipped EXCEPT ![a] = EverFlipped(@, flips)]
                /\ update_condition' = [update_condition EXCEPT ![a] = new]
    /\ AfterStep(a)
    /\ UNCHANGED <<registry, unit, params, grid, pos, condition, jail_sentence,
                   running, revolution, iteration, raised>>

\* Citizen.advance
CitizenAdvance(a) ==
    /\ pc = "advance" /\ idx = a /\ IsCitizen(a)
    /\ IF jail_sentence[a] > 0
       THEN /\ jail_sentence' = [jail_sentence EXCEPT ![a] = @ - 1]
            /\ AfterAdvance(a)
            /\ UNCHANGED <<grid, pos, condition, raised>>
       ELSE IF condition[a] = "Jailed"
       THEN IF Empties(grid) = {}
            THEN \* random.choice of an empty list: IndexError
                 /\ Raise("IndexError")
                 /\ UNCHANGED <<grid, pos, condition, jail_sentence>>
            ELSE \E c \in Empties(grid) :
                 \E w \in RandomMove(PlaceAgent(World, a, c), a) :
                    /\ grid' = w.grid
                    /\ pos' = w.pos
                    /\ condition' = [condition EXCEPT ![a] = update_condition[a]]
                    /\ AfterAdvance(a)
                    /\ UNCHANGED <<jail_sentence, raised>>
       ELSE \E w \in RandomMove(World, a) :
                    /\ grid' = w.grid
                    /\ pos' = w.pos
                    /\ condition' = [condition EXCEPT ![a] = update_condition[a]]
                    /\ AfterAdvance(a)
                    /\ UNCHANGED <<jail_sentence, raised>>
    /\ UNCHANGED <<registry, unit, params, update_condition, flip, ever_flipped, activation,
                   running, revolution, iteration>>

(* ------------------------------------------------------------------ *)
(* Security                                                            *)
(* ------------------------------------------------------------------ *)
\* Security.step
SecurityStep(a) ==
    /\ pc = "step" /\ idx = a /\ IsSecurity(a)
    /\ AfterStep(a)
    /\ UNCHANGED <<registry, unit, params, actors, running, revolution, iteration, raised>>

\* Security.arrest, lines 242-255: the two candidate lists
ArrestNeighbors(a) ==
    CellListContents(grid, Neighborhood(pos[a], 1, FALSE))
active_neighbors(a) ==
    { n \in ArrestNeighbors(a) : IsCitizen(n) /\ condition[n] = "Active" }
oppose_neighbors(a) ==
    { n \in ArrestNeighbors(a) : IsCitizen(n) /\ condition[n] = "Oppose"
                                   /\ activation[n] > threshold_constant_sigmoid }

\* (variant: any actor in a neighbouring cell can be arrested)
Arrestees_AnyActor(a) == ArrestNeighbors(a)

\* (variant: no priority of the Active over the Oppose candidates)
Arrestees_NoPriority(a) == active_neighbors(a) \cup oppose_neighbors(a)

\* Security.arrest, lines 258-269: whom it may arrest
Arrestees(a) ==
    IF active_neighbors(a) # {} THEN active_neighbors(a)
    ELSE oppose_neighbors(a)

\* (variant: the sentence drawn from 1..max_jail_term + 1)
Sentences_OffByOne == 1..(max_jail_term + 1)

\* (variant: the sentence drawn from 0..2 * max_jail_term)
Sentences_Doubled == 0..(2 * max_jail_term)

\* Security.arrest, lines 260 and 266: randint(0, max_jail_term)
Sentences == 0..max_jail_term

\* (variant: the arrestee is left on the grid)
ArrestWorld_NoRemove(w, arrestee) == w

\* Security.arrest, lines 263 and 269: the arrestee leaves the grid
ArrestWorld(w, arrestee) == RemoveAgent(w, arrestee)

\* Security.advance
SecurityAdvance(a) ==
    /\ pc = "advance" /\ idx = a /\ IsSecurity(a)
    /\ IF Arrestees(a) = {}
       THEN /\ \E w \in RandomMove(World, a) : grid' = w.grid /\ pos' = w.pos
            /\ UNCHANGED <<condition, jail_sentence>>
       ELSE \E arrestee \in Arrestees(a), sentence \in Sentences :
            /\ jail_sentence' = [jail_sentence EXCEPT ![arrestee] = sentence]
            /\ condition' = [condition EXCEPT ![arrestee] = "Jailed"]
            /\ \E w \in RandomMove(ArrestWorld(World, arrestee), a) :
                    grid' = w.grid /\ pos' = w.pos
    /\ AfterAdvance(a)
    /\ UNCHANGED <<registry, unit, params, update_condition, flip, ever_flipped, activation,
                   running, revolution, iteration, raised>>

(* ------------------------------------------------------------------ *)
(* ResistanceCascade.step after schedule.step()                        *)
(* ------------------------------------------------------------------ *)
\* (variant: the run stopped on reaching the limit)
IterationsExceeded_AtLimit(i) == i >= max_iters

\* line 279: self.iteration > self.max_iters
IterationsExceeded(i) == i > max_iters

\* (variant: running recomputed from scratch at every step)
StillRunning_Recomputed(was, exceeded, stop) == ~(exceeded \/ stop)

\* lines 265-280: running is only ever set to False
StillRunning(was, exceeded, stop) == IF exceeded \/ stop THEN FALSE ELSE was

ModelStepTail ==
    /\ pc = "tail"
    /\ iteration' = iteration + 1
    /\ IF citizen_count = 0
       THEN \* active_or_jailed_agents / self.citizen_count
            /\ Raise("ZeroDivisionError")
            /\ UNCHANGED <<running, revolution>>
       ELSE /\ revolution' = (revolution \/ StopConditionMet)
            /\ running' = StillRunning(running, IterationsExceeded(iteration'),
                                        StopConditionMet)
            /\ pc' = "idle"
            /\ UNCHANGED <<idx, raised>>
    /\ UNCHANGED <<registry, unit, params, actors>>

Next ==
    \/ StepCall
    \/ \E a \in Agents : CitizenStep(a)
    \/ \E a \in Agents : SecurityStep(a)
    \/ \E a \in Agents : CitizenAdvance(a)
    \/ \E a \in Agents : SecurityAdvance(a)
    \/ ModelStepTail

Spec == Init /\ [][Next]_vars

(* ------------------------------------------------------------------ *)
(* A patrol: one Citizen and two Securities on a ring wide enough for  *)
(* cells two apart, the model built with movement=False                *)
(* ------------------------------------------------------------------ *)
PatrolWidth == 4
security_vision == 2

\* RandomWalker.update_neighbors of a Security: what it senses at its vision
SecurityNeighbors(a) ==
    CellListContents(grid, Neighborhood(pos[a], security_vision, FALSE))

PatrolInit == Constructs({PatrolWidth}, {1}, {2}, {TRUE}, {FALSE})

PatrolSpec == PatrolInit /\ [][Next]_vars

(* ------------------------------------------------------------------ *)
(* The scheduler on its own: add, remove and get_type_count called in  *)
(* any order on the model's actors                                     *)
(* ------------------------------------------------------------------ *)
\* the model's variables outside the scheduler
Model == <<params, actors, running, revolution, iteration, pc, idx>>

\* actors created but placed and registered nowhere, no step() under way
Unplaced(cc, sc, where) ==
    /\ width = 2
    /\ citizen_count = cc
    /\ security_count = sc
    /\ multiple_agents_per_cell = TRUE
    /\ movement = TRUE
    /\ pos = [a \in Agents |-> NoPos]
    /\ grid = [c \in Cells |-> {}]
    /\ condition = [a \in Agents |-> IF IsCitizen(a) THEN "Support" ELSE "Security"]
    /\ jail_sentence = [a \in Citizens |-> 0]
    /\ update_condition = [a \in Citizens |-> "None"]
    /\ flip = [a \in Citizens |-> "None"]
    /\ ever_flipped = [a \in Citizens |-> FALSE]
    /\ activation = [a \in Citizens |-> threshold_constant_sigmoid]
    /\ running = FALSE
    /\ revolution = FALSE
    /\ iteration = 0
    /\ pc = where
    /\ idx = 0
    /\ raised = "none"

SchedulerInit ==
    /\ \E cc \in CitizenCounts, sc \in SecurityCounts : Unplaced(cc, sc, "scheduler")
    /\ agents = EmptyRegistry.agents
    /\ agents_by_type = EmptyRegistry.agents_by_type
    /\ last_call = NoCall
    /\ citizen = NoCitizen
    /\ args = NoArgs

\* schedule.add(agent)
SchedulerAdd(a) ==
    /\ pc = "scheduler"
    /\ last_call' = [op |-> "add", agent |-> a]
    /\ IF a \in agents
       THEN \* the base scheduler refuses an id it already holds
            /\ raised' = "Exception"
            /\ UNCHANGED registry
       ELSE /\ raised' = "none"
            /\ agents' = Added([agents |-> agents, agents_by_type |-> agents_by_type], a).agents
            /\ agents_by_type' =
                   Added([agents |-> agents, agents_by_type |-> agents_by_type], a).agents_by_type
    /\ UNCHANGED <<Model, citizen, args>>

\* schedule.remove(agent)
SchedulerRemove(a) ==
    /\ pc = "scheduler"
    /\ last_call' = [op |-> "remove", agent |-> a]
    /\ IF a \notin agents
       THEN \* the base scheduler's del raises before the type index is read
            /\ raised' = "KeyError"
            /\ UNCHANGED registry
       ELSE /\ raised' = "none"
            /\ agents' = Removed([agents |-> agents, agents_by_type |-> agents_by_type], a).agents
            /\ agents_by_type' =
                   Removed([agents |-> agents, agents_by_type |-> agents_by_type], a).agents_by_type
    /\ UNCHANGED <<Model, citizen, args>>

\* schedule.get_type_count(type_class, filter_func)
GetTypeCount(t, f) ==
    /\ pc = "scheduler"
    /\ last_call' = [op |-> "get_type_count", type_class |-> t, filter_func |-> f,
                     count |-> TypeCount(agents_by_type, t, f)]
    /\ raised' = "none"
    /\ agents_by_type' = Lookup(agents_by_type, t)
    /\ UNCHANGED <<agents, Model, citizen, args>>

SchedulerNext ==
    \/ \E a \in Agents : SchedulerAdd(a)
    \/ \E a \in Agents : SchedulerRemove(a)
    \/ \E t \in Types, f \in FilterFuncs : GetTypeCount(t, f)

SchedulerSpec == SchedulerInit /\ [][SchedulerNext]_vars

(* ------------------------------------------------------------------ *)
(* One Citizen on its own: created, then stepped, advanced and         *)
(* arrested, with whatever neighbours, levels and draws can occur      *)
(* ------------------------------------------------------------------ *)
\* everything but the Citizen followed and where its step stands
Others == <<params, actors, running, revolution, iteration, idx, registry, last_call, args>>

\* model.__init__ for one Citizen: lines 138-165 and the first decision,
\* lines 239-242
OneCitizenInit ==
    /\ Unplaced(0, 0, "citizen_step")
    /\ agents = EmptyRegistry.agents
    /\ agents_by_type = EmptyRegistry.agents_by_type
    /\ last_call = NoCall
    /\ args = NoArgs
    /\ \E eps \in Epsilons, n \in NeighborLists, act \in Activations,
          al \in Levels, ol \in Levels, r \in Draws :
          \E t1 \in Gauss(threshold, eps), t2 \in Gauss(threshold, eps) :
             citizen = determine_condition(
                          update_neighbors(NewCitizen(eps, t1, t2), n), act, al, ol, r)

\* Citizen.step
OneCitizenStep ==
    /\ pc = "citizen_step"
    /\ pc' = "citizen_advance"
    /\ LET c == [citizen EXCEPT !.flip = "False"]
       IN  IF SkipsDecision(c.jail_sentence, c.condition)
           THEN citizen' = c
           ELSE \E n \in NeighborLists, act \in Activations,
                   al \in Levels, ol \in Levels, r \in Draws :
                   citizen' = determine_condition(update_neighbors(c, n), act, al, ol, r)
    /\ raised' = "none"
    /\ UNCHANGED Others

\* Citizen.advance; whether grid.empties holds a cell is the grid's affair
OneCitizenAdvance ==
    /\ pc = "citizen_advance"
    /\ pc' = "security_advance"
    /\ IF citizen.jail_sentence > 0
       THEN /\ citizen' = [citizen EXCEPT !.jail_sentence = @ - 1]
            /\ UNCHANGED raised
       ELSE IF citizen.condition = "Jailed"
       THEN \/ /\ raised' = "IndexError"
               /\ UNCHANGED citizen
            \/ /\ citizen' = [citizen EXCEPT !.on_grid = TRUE,
                                              !.condition = citizen.update_condition]
               /\ UNCHANGED raised
       ELSE /\ citizen' = [citizen EXCEPT !.condition = citizen.update_condition]
            /\ UNCHANGED raised
    /\ UNCHANGED Others

\* Security.advance of the Security actors around: arrest() may take this
\* Citizen
OneCitizenArrested ==
    /\ pc = "security_advance"
    /\ pc' = "citizen_step"
    /\ \/ UNCHANGED citizen
       \/ /\ citizen.on_grid
          /\ \/ citizen.condition = "Active"
             \/ /\ citizen.condition = "Oppose"
                /\ citizen.activation > threshold_constant_sigmoid
          /\ \E sentence \in Sentences :
                citizen' = [citizen EXCEPT !.jail_sentence = sentence,
                                          !.condition = "Jailed",
                                          !.on_grid = FALSE]
    /\ UNCHANGED <<Others, raised>>

OneCitizenNext ==
    \/ OneCitizenStep
    \/ OneCitizenAdvance
    \/ OneCitizenArrested

OneCitizenSpec == OneCitizenInit /\ [][OneCitizenNext]_vars

(* ------------------------------------------------------------------ *)
(* ResistanceCascade.__init__ as a call: which arguments yield a        *)
(* simulation.  The actors it creates are not followed here.           *)
(* ------------------------------------------------------------------ *)
\* densities, in percent
Densities == {0 - 50, 0, 50, 100, 150}
\* vision radii
Visions == 0..1
\* grid heights: none, or the ring
Heights == 0..height

\* arguments a caller can pass
Arguments ==
    [width : 0..MaxWidth, height : Heights,
     citizen_density : Densities, security_density : Densities,
     citizen_vision : Visions, security_vision : Visions]

\* Python's round(n / d) for d > 0: to the nearest integer, a tie to the
\* even one
Round(n, d) ==
    LET q == n \div d
        r == n - q * d
    IN  IF 2 * r < d THEN q
        ELSE IF 2 * r > d THEN q + 1
        ELSE IF q % 2 = 0 THEN q ELSE q + 1

\* line 110: round(width * height * citizen_density)
CitizenCountOf(a) == Round(a.width * a.height * a.citizen_density, 100)
\* line 111: round(width * height * security_density)
SecurityCountOf(a) == Round(a.width * a.height * a.security_density, 100)

ConstructInit ==
    /\ Unplaced(0, 0, "constructing")
    /\ agents = EmptyRegistry.agents
    /\ agents_by_type = EmptyRegistry.agents_by_type
    /\ last_call = NoCall
    /\ citizen = NoCitizen
    /\ args \in Arguments

\* the constructor runs on args: no argument is validated
Construct ==
    /\ pc = "constructing"
    /\ citizen_count' = CitizenCountOf(args)
    /\ security_count' = SecurityCountOf(args)
    /\ \/ \* a grid without cells: MultiGrid refuses it, or datacollector.collect
          \* divides by a citizen_count of 0
          /\ args.width <= 0 \/ args.height <= 0
          /\ raised' \in {"ValueError", "ZeroDivisionError"}
          /\ pc' = "init_raised"
          /\ UNCHANGED <<running, width, grid>>
       \/ \* speed_of_spread divides by citizen_count (line 246)
          /\ args.width > 0 /\ args.height > 0
          /\ CitizenCountOf(args) = 0
          /\ raised' = "ZeroDivisionError"
          /\ pc' = "init_raised"
          /\ UNCHANGED <<running, width, grid>>
       \/ /\ args.width > 0 /\ args.height > 0
          /\ CitizenCountOf(args) # 0
          /\ width' = args.width
          /\ grid' = [c \in (0..(args.width - 1)) \X (0..(height - 1)) |-> {}]
          /\ running' = TRUE
          /\ pc' = "idle"
          /\ UNCHANGED raised
    /\ UNCHANGED <<multiple_agents_per_cell, movement, pos, condition,
                   update_condition,
                   jail_sentence, flip, ever_flipped, activation, revolution,
                   iteration, idx, registry, unit>>

ConstructNext == Construct

ConstructSpec == ConstructInit /\ [][ConstructNext]_vars

(* ------------------------------------------------------------------ *)
(* Properties                                                          *)
(* ------------------------------------------------------------------ *)
\* a reporting point: after construction and after every completed step()
StepBoundary == pc = "idle"

\* C1: after construction and after every step() the Support, Oppose,
\* Active and Jailed counts sum to citizen_count, and every Citizen's
\* condition is one of these four values.
C1_ClosedPopulation ==
    StepBoundary =>
        /\ count_support + count_oppose + count_active + count_jail = citizen_count
        /\ \A c \in Citizens :
              condition[c] \in {"Support", "Oppose", "Active", "Jailed"}

\* C1 witness: a step boundary after arrests, with one Citizen Jailed and
\* the other publicly opposed.
C1_Witness ==
    /\ StepBoundary /\ iteration >= 2
    /\ count_jail = 1 /\ count_oppose = 1

\* the Active-or-Jailed fraction of the Citizens is at least 0.95
Fraction95 ==
    /\ citizen_count # 0
    /\ 100 * Cardinality({ c \in Citizens : condition[c] \in {"Active", "Jailed"} })
         >= 95 * citizen_count

\* the step that ends a step() call normally
StepEnds == pc = "tail" /\ pc' = "idle" /\ raised' = "none"

\* C2: revolution is false after construction, turns true exactly at the
\* end of a step() whose Active-or-Jailed fraction is >= 0.95 and nowhere
\* else, and running is false at the end of that same call.
C2_RevolutionIff ==
    /\ ~revolution
    /\ [][ /\ StepEnds => /\ revolution' = (revolution \/ Fraction95)
                          /\ Fraction95 => ~running'
           /\ ~StepEnds => revolution' = revolution ]_vars

\* C2 witness: a step() call has just ended with the revolution won before
\* the iteration limit.
C2_Witness ==
    /\ StepBoundary /\ revolution /\ ~running
    /\ iteration <= max_iters /\ Fraction95

\* C3: within a step() call every actor's step() runs before any actor's
\* advance(), and no step() changes a condition, a position, the grid or a
\* jail_sentence, so the whole decide-phase reads the values that stood at
\* the end of the previous step.
C3_DecideBeforeCommit ==
    [][ /\ pc = "step" =>
              /\ UNCHANGED <<condition, pos, grid, jail_sentence>>
              /\ pc' \in {"step", "advance"}
              /\ pc' = "step" => idx' = idx + 1
              /\ pc' = "advance" => idx = NumAgents /\ idx' = 1
        /\ pc = "advance" => pc' # "step" ]_vars

\* C3 witness: in the decide-phase of a later step the first Citizen has
\* decided on a condition other than its committed one while the next
\* actor has yet to decide.
C3_Witness ==
    /\ pc = "step" /\ idx = 2 /\ iteration >= 1
    /\ condition[1] # "Jailed"
    /\ update_condition[1] # condition[1]

\* C4: when a Security's advance() runs, every Citizen's advance() of the
\* same step has run: each Citizen not in jail shows the condition it
\* decided on in this step.
C4_SecuritySeesCommitted ==
    (pc = "advance" /\ IsSecurity(idx)) =>
        \A c \in Citizens :
            condition[c] = "Jailed" \/ condition[c] = update_condition[c]

\* C4 witness: a Security is about to commit in the first step, next to a
\* Citizen that turned Active in this very step.
C4_Witness ==
    /\ pc = "advance" /\ IsSecurity(idx) /\ iteration = 0
    /\ \E c \in Citizens : condition[c] = "Active" /\ pos[c] # pos[idx]

\* a Citizen's advance() is the next thing to run
CitizenCommits(c) == pc = "advance" /\ idx = c /\ IsCitizen(c)

\* a Security's advance() is the next thing to run
SecurityCommits(a) == pc = "advance" /\ idx = a /\ IsSecurity(a)

\* no cell of the grid holds the actor
OffGrid(g, a) == \A cell \in Cells : a \notin g[cell]

\* C5: a commit that starts with jail_sentence > 0 decrements it by one and
\* changes nothing else about the Citizen; the first commit that starts
\* with jail_sentence = 0 and condition Jailed releases the Citizen.
C5_JailTerm ==
    [][ \A c \in Citizens : CitizenCommits(c) =>
          /\ jail_sentence[c] > 0 =>
                /\ jail_sentence'[c] = jail_sentence[c] - 1
                /\ condition'[c] = "Jailed" /\ condition[c] = "Jailed"
                /\ pos'[c] = NoPos /\ OffGrid(grid', c)
                /\ update_condition'[c] = update_condition[c]
                /\ flip'[c] = flip[c]
          /\ (jail_sentence[c] = 0 /\ condition[c] = "Jailed") =>
                /\ condition'[c] # "Jailed"
                /\ pos'[c] # NoPos /\ ~OffGrid(grid', c) ]_vars

\* C6: a release places the Citizen on a cell that was empty (its random
\* move starts from there) and leaves it with condition Support.
C6_ReleasedAsSupport ==
    [][ \A c \in Citizens :
          (CitizenCommits(c) /\ condition[c] = "Jailed" /\ pos'[c] # NoPos) =>
             /\ \E e \in Empties(grid) : pos'[c] \in Neighborhood(e, 1, TRUE)
             /\ condition'[c] = "Support" ]_vars

\* C7: at a reporting point flip is true only for a Citizen whose condition
\* turned Active in the step just made: never after construction, never
\* for a Jailed Citizen.
C7_FlipOnlyOnTransition ==
    StepBoundary =>
        \A c \in Citizens :
            flip[c] = "True" => (iteration > 0 /\ condition[c] = "Active")

\* C8: a Citizen is off the grid (in no cell, pos None) exactly when its
\* condition is Jailed.
C8_OffGridIffJailed ==
    \A c \in Citizens :
        /\ (condition[c] = "Jailed") <=> (pos[c] = NoPos)
        /\ (pos[c] = NoPos) <=> OffGrid(grid, c)
        /\ pos[c] # NoPos => c \in grid[pos[c]]

\* C8 witness: a step boundary with one Citizen in jail, off the grid, and
\* the other on the grid.
C8_Witness ==
    /\ StepBoundary /\ iteration >= 2
    /\ \E c, d \in Citizens :
          /\ condition[c] = "Jailed" /\ pos[c] = NoPos
          /\ condition[d] # "Jailed" /\ pos[d] # NoPos

\* distance of two coordinates on a ring of n cells
RingDistance(x, y, n) ==
    IF (x - y) % n <= (y - x) % n THEN (x - y) % n ELSE (y - x) % n

\* two different cells next to each other on the torus
Adjacent(p, q) ==
    /\ p # NoPos /\ q # NoPos /\ p # q
    /\ RingDistance(p[1], q[1], width) <= 1
    /\ RingDistance(p[2], q[2], height) <= 1

\* the Active Citizens next to actor a, and the Oppose ones above the
\* model-wide activation constant
ActiveNextTo(a) ==
    { c \in Citizens : condition[c] = "Active" /\ Adjacent(pos[a], pos[c]) }
OpposeNextTo(a) ==
    { c \in Citizens : /\ condition[c] = "Oppose"
                       /\ activation[c] > threshold_constant_sigmoid
                       /\ Adjacent(pos[a], pos[c]) }

\* the Citizens this step of the model puts in jail
NewlyJailed ==
    { c \in Citizens : condition[c] # "Jailed" /\ condition'[c] = "Jailed" }

\* C9: an arrest sets jail_sentence within 0..max_jail_term, the condition
\* to Jailed and takes the Citizen off the grid; a Security with exactly one
\* Active Citizen and no other candidate next to it arrests that Citizen.
C9_Arrest ==
    [][ \A a \in Securities : SecurityCommits(a) =>
          /\ \A c \in NewlyJailed :
                /\ jail_sentence'[c] \in 0..max_jail_term
                /\ pos'[c] = NoPos /\ OffGrid(grid', c)
          /\ \A c \in Citizens :
                (ActiveNextTo(a) = {c} /\ OpposeNextTo(a) = {}) =>
                    c \in NewlyJailed ]_vars

\* C9 witness: in the first step a Security has just arrested a Citizen
\* with the longest sentence.
C9_Witness ==
    /\ pc = "tail" /\ iteration = 0 /\ security_count > 0
    /\ \E c \in Citizens :
          /\ condition[c] = "Jailed" /\ jail_sentence[c] = max_jail_term
          /\ pos[c] = NoPos

\* C10: a Security's commit arrests at most one Citizen: an Active
\* candidate if there is one, else a qualifying Oppose candidate if there
\* is one, else nobody; never a Support Citizen.
C10_ArrestPolicy ==
    [][ \A a \in Securities : SecurityCommits(a) =>
          /\ Cardinality(NewlyJailed) <= 1
          /\ ActiveNextTo(a) # {} =>
                Cardinality(NewlyJailed) = 1 /\ NewlyJailed \subseteq ActiveNextTo(a)
          /\ (ActiveNextTo(a) = {} /\ OpposeNextTo(a) # {}) =>
                Cardinality(NewlyJailed) = 1 /\ NewlyJailed \subseteq OpposeNextTo(a)
          /\ (ActiveNextTo(a) = {} /\ OpposeNextTo(a) = {}) =>
                /\ NewlyJailed = {}
                /\ UNCHANGED <<condition, jail_sentence>>
                /\ \A c \in Citizens : pos'[c] = pos[c]
          /\ \A c \in NewlyJailed : condition[c] # "Support" ]_vars

\* C10 witness: with exclusive cells on a ring of three, the Security has
\* just arrested the Active Citizen and left the qualifying Oppose Citizen
\* that stood next to it.
C10_Witness ==
    /\ pc = "tail" /\ iteration = 0
    /\ width = 3 /\ ~multiple_agents_per_cell /\ security_count > 0
    /\ \E c, d \in Citizens :
          /\ condition[c] = "Jailed" /\ update_condition[c] = "Active"
          /\ condition[d] = "Oppose" /\ pos[d] # NoPos
          /\ activation[d] > threshold_constant_sigmoid

\* the type-indexed registry holds actor a under type t
IndexedUnder(a, t) == t \in DOMAIN agents_by_type /\ a \in agents_by_type[t]

\* C16: after any sequence of add and remove calls an actor is in the flat
\* registry exactly when the type-indexed registry holds it under its own
\* type, and it is never held under another type.
C16_RegistriesAgree ==
    \A a \in Agents :
        /\ a \in agents <=> IndexedUnder(a, TypeOf(a))
        /\ \A t \in DOMAIN agents_by_type : a \in agents_by_type[t] => t = TypeOf(a)

\* C16 witness: an actor has just been removed while another one, of the
\* same type, stays registered.
C16_Witness ==
    /\ last_call.op = "remove" /\ raised = "none"
    /\ \E b \in agents : TypeOf(b) = TypeOf(last_call.agent)

\* a get_type_count call returns
Counted == last_call'.op = "get_type_count" /\ last_call' # last_call

\* C17: get_type_count returns the number of registered actors of the given
\* type that satisfy the predicate (all of them without a predicate), and
\* leaves the flat registry and the type-indexed registry, its set of type
\* keys included, as they were.
C17_CountIsPure ==
    [][ Counted =>
          /\ last_call'.count =
                Cardinality({ a \in agents :
                                /\ TypeOf(a) = last_call'.type_class
                                /\ \/ last_call'.filter_func = << >>
                                   \/ a \in last_call'.filter_func[1] })
          /\ agents' = agents
          /\ DOMAIN agents_by_type' = DOMAIN agents_by_type
          /\ agents_by_type' = agents_by_type ]_vars

\* the returned count alone is exact
C17_CountExact ==
    [][ Counted =>
          last_call'.count =
             Cardinality({ a \in agents :
                             /\ TypeOf(a) = last_call'.type_class
                             /\ \/ last_call'.filter_func = << >>
                                \/ a \in last_call'.filter_func[1] }) ]_vars

\* C11: the pending condition is Active exactly when active_level exceeds
\* the uniform draw r, Oppose exactly when active_level does not and
\* oppose_level does, and Support otherwise.
C11_PendingByLevels ==
    LET al == citizen.active_level
        ol == citizen.oppose_level
        r  == citizen.random_activation
    IN  /\ citizen.update_condition = "Active" <=> al > r
        /\ citizen.update_condition = "Oppose" <=> (al <= r /\ ol > r)
        /\ citizen.update_condition = "Support" <=> (al <= r /\ ol <= r)

\* C11 witness: step() has decided for Oppose, with the activation level at
\* the draw and the opposition level above it.
C11_Witness ==
    /\ pc = "citizen_advance" /\ citizen.condition # "Jailed"
    /\ citizen.flip = "False"
    /\ citizen.update_condition = "Oppose"
    /\ citizen.active_level = citizen.random_activation
    /\ citizen.oppose_level > citizen.random_activation

\* C12: a Citizen's oppose_threshold is at most its active_threshold once
\* it is constructed, whatever the two draws and the sign of epsilon, and no
\* later step changes either threshold.
C12_ThresholdOrder ==
    /\ citizen.oppose_threshold <= citizen.active_threshold
    /\ [][ /\ citizen'.oppose_threshold = citizen.oppose_threshold
           /\ citizen'.active_threshold = citizen.active_threshold ]_vars

\* C12 witness: a Citizen built with a negative epsilon and two different
\* draws has since been arrested.
C12_Witness ==
    /\ citizen.epsilon < 0
    /\ citizen.oppose_threshold < citizen.active_threshold
    /\ citizen.condition = "Jailed"

\* C18: after every census the Citizen's actives_in_vision and
\* support_in_vision are both at least 1.
C18_CensusFloors ==
    /\ citizen.actives_in_vision >= 1
    /\ citizen.support_in_vision >= 1

\* C18 witness: step() has taken a census in which no neighbour is Active
\* or Support.
C18_Witness ==
    /\ pc = "citizen_advance" /\ citizen.flip = "False"
    /\ citizen.condition # "Jailed"
    /\ citizen.neighbors["Oppose"] + citizen.neighbors["Security"] = MaxNeighbors
    /\ citizen.actives_in_vision = 1 /\ citizen.support_in_vision = 1

\* C14: while the Active-or-Jailed fraction has not reached 0.95, running
\* stays true up to and including the step() call that brings the step
\* counter to max_iters, and the call that brings it to max_iters + 1 sets
\* running to false and leaves revolution false; from max_iters + 1
\* completed steps on, running is false.
C14_IterationLimit ==
    /\ [](/\ (iteration <= max_iters /\ ~revolution) => running
          /\ iteration >= max_iters + 1 => ~running)
    /\ [][ (StepEnds /\ ~revolution /\ ~Fraction95 /\ iteration' = max_iters + 1)
             => (running /\ ~running' /\ ~revolution') ]_vars

\* C14 witness: the step counter has passed max_iters without a revolution.
C14_Witness ==
    /\ StepBoundary /\ raised = "none"
    /\ iteration = max_iters + 1
    /\ ~revolution /\ ~running

\* the simulation as its constructor returns it
Constructed == pc = "idle" /\ iteration = 0

\* C15: right after construction running is true, revolution is false and
\* the step counter is 0; every Citizen is on the grid with condition
\* Support and jail_sentence 0, and has a pending condition among Support,
\* Oppose and Active that is not yet its condition.
C15_AfterConstruction ==
    Constructed =>
        /\ running /\ ~revolution /\ iteration = 0
        /\ \A c \in Citizens :
              /\ pos[c] \in Cells /\ c \in grid[pos[c]]
              /\ condition[c] = "Support"
              /\ jail_sentence[c] = 0
              /\ update_condition[c] \in {"Support", "Oppose", "Active"}

\* C15 witness: a constructed simulation in which one Citizen is pending
\* Active and another pending Oppose, both still showing Support.
C15_Witness ==
    /\ Constructed /\ raised = "none"
    /\ \E c, d \in Citizens :
          /\ update_condition[c] = "Active" /\ condition[c] = "Support"
          /\ update_condition[d] = "Oppose" /\ condition[d] = "Support"

\* every cell of the grid holds some actor
GridFull == \A cell \in Cells : grid[cell] # {}

\* C19: when a Jailed Citizen due for release finds no empty cell, the
\* step() call is not aborted: the Citizen stays Jailed and off the grid,
\* and the scheduler goes on to the commits of the actors after it.
C19_ExhaustionTolerated ==
    [][ \A c \in Citizens :
          (CitizenCommits(c) /\ jail_sentence[c] = 0 /\ condition[c] = "Jailed"
             /\ GridFull)
          => /\ condition'[c] = "Jailed" /\ pos'[c] = NoPos
             /\ pc' = (IF c < NumAgents THEN "advance" ELSE "tail")
             /\ idx' = (IF c < NumAgents THEN c + 1 ELSE 0) ]_vars

\* the arguments the specification calls a configuration error
InvalidArguments ==
    LET smaller == IF args.width <= args.height THEN args.width ELSE args.height
    IN  \/ args.citizen_density < 0 \/ args.citizen_density > 100
        \/ args.security_density < 0 \/ args.security_density > 100
        \/ args.width <= 0 \/ args.height <= 0
        \/ 2 * args.citizen_vision >= smaller
        \/ 2 * args.security_vision >= smaller

\* C20: no simulation in Running state is produced from a density below 0
\* or above 1, a width or height that is not positive, or a vision radius of
\* at least half the smaller grid dimension.
C20_InvalidRejected ==
    InvalidArguments => ~(pc = "idle" /\ running)

\* the part of it that holds: a grid without cells yields no simulation
C20_NoCellsRejected ==
    (args.width <= 0 \/ args.height <= 0) => ~(pc = "idle" /\ running)

\* the cells next to p on the torus, p itself left out
AdjacentCells(p) == { c \in Cells : Adjacent(p, c) }

\* actor a's advance() is the next thing to run and will call random_move
RandomMoves(a) ==
    \/ SecurityCommits(a)
    \/ CitizenCommits(a) /\ jail_sentence[a] = 0 /\ condition[a] # "Jailed"

\* C21: random_move takes the actor to a cell next to its own and different
\* from it, an empty one when cells are exclusive; only when there is no
\* such cell does the actor stay, and no error is raised.
C21_MovesToAdjacent ==
    [][ \A a \in Agents : RandomMoves(a) =>
          /\ raised' = "none"
          /\ IF pos'[a] = pos[a]
             THEN /\ ~multiple_agents_per_cell
                  /\ \A c \in AdjacentCells(pos[a]) : grid'[c] # {}
             ELSE /\ Adjacent(pos[a], pos'[a])
                  /\ multiple_agents_per_cell \/ grid'[pos'[a]] = {a} ]_vars

\* what random_move does keep to: the actor stays or goes to a cell next to
\* its own, and with exclusive cells it goes to an empty one and stays only
\* when none is empty
C21_StaysOrMovesToAdjacent ==
    [][ \A a \in Agents : RandomMoves(a) =>
          /\ raised' = "none"
          /\ IF pos'[a] = pos[a]
             THEN \/ multiple_agents_per_cell
                  \/ \A c \in AdjacentCells(pos[a]) : grid'[c] # {}
             ELSE /\ Adjacent(pos[a], pos'[a])
                  /\ multiple_agents_per_cell \/ grid'[pos'[a]] = {a} ]_vars

\* C28: every Citizen's jail_sentence lies in 0..max_jail_term, and a
\* Citizen with a positive jail_sentence has condition Jailed.
C28_SentenceRange ==
    \A c \in Citizens :
        /\ jail_sentence[c] \in 0..max_jail_term
        /\ jail_sentence[c] > 0 => condition[c] = "Jailed"

\* C28 witness: a Citizen is serving the longest sentence.
C28_Witness ==
    \E c \in Citizens :
        jail_sentence[c] = max_jail_term /\ jail_sentence[c] > 0
           /\ condition[c] = "Jailed"

\* C30: running never goes from false to true, revolution never goes from
\* true to false, whatever the Active-or-Jailed fraction does later, and
\* revolution implies that running is false.
C30_FlagsMonotone ==
    /\ [](revolution => ~running)
    /\ [][ /\ ~running => ~running'
           /\ revolution => revolution' ]_vars

\* C30 witness: a step() call made after the revolution has ended with the
\* fraction back under 0.95.
C30_Witness ==
    /\ StepBoundary /\ raised = "none" /\ iteration >= 2
    /\ revolution /\ ~running
    /\ ~Fraction95

\* C26: step() adds no actor to the scheduler and removes none: both
\* registries stay as construction left them, with citizen_count Citizens
\* registered, the arrested ones included; a Security keeps condition
\* Security and is never arrested.
C26_ActorsNeverDestroyed ==
    /\ [](/\ Cardinality({ a \in agents : IndexedUnder(a, "Citizen") }) = citizen_count
          /\ \A c \in Citizens : c \in agents /\ IndexedUnder(c, "Citizen")
          /\ \A a \in Securities :
                /\ a \in agents /\ IndexedUnder(a, "Security")
                /\ condition[a] = "Security"
                /\ pos[a] # NoPos)
    /\ [][ agents' = agents /\ agents_by_type' = agents_by_type ]_vars

\* C26 witness: after two steps a Citizen is in jail, off the grid, and
\* still registered next to a Security.
C26_Witness ==
    /\ StepBoundary /\ iteration >= 2
    /\ \E c \in Citizens :
          condition[c] = "Jailed" /\ pos[c] = NoPos /\ c \in agents
    /\ Securities # {}

\* the Active Citizens a Security senses at its vision radius
ActiveInVision(a) ==
    { n \in SecurityNeighbors(a) : IsCitizen(n) /\ condition[n] = "Active" }

\* C22: the arrest candidates of a Security are the Citizens within its
\* vision radius: whenever an Active Citizen is within that radius at the
\* Security's commit, an Active Citizen within that radius is arrested.
C22_ArrestsWithinVision ==
    [][ \A a \in Securities :
          SecurityCommits(a) /\ ActiveInVision(a) # {} =>
              \E n \in ActiveInVision(a) : n \in NewlyJailed ]_vars

\* what the code does instead: whoever is arrested stood in a cell next to
\* the Security, whatever its vision
C22_ArrestsNextToOnly ==
    [][ \A a \in Securities : SecurityCommits(a) =>
          /\ NewlyJailed \subseteq ActiveNextTo(a) \cup OpposeNextTo(a)
          /\ ActiveNextTo(a) = {} /\ ActiveInVision(a) # {} =>
                \A n \in ActiveInVision(a) : n \notin NewlyJailed ]_vars

\* actor a's advance() is the next thing to run, with a on the grid and
\* not serving a sentence
CommitsOnGrid(a) ==
    /\ pc = "advance" /\ idx = a /\ pos[a] # NoPos
    /\ IsCitizen(a) => jail_sentence[a] = 0 /\ condition[a] # "Jailed"

\* C23: a non-jailed actor's commit makes its random move when the movement
\* flag is enabled; when the flag is disabled no Citizen or Security that is
\* on the grid changes cell during its commit.
C23_MovesIffEnabled ==
    [][ \A a \in Agents : CommitsOnGrid(a) =>
          IF movement
          THEN pos'[a] \in Neighborhood(pos[a], 1, TRUE)
          ELSE pos'[a] = pos[a] ]_vars

\* C29: a Citizen is arrested at most once per step, even with several
\* Securities around it: a Security's commit arrests at most one Citizen
\* and leaves every Jailed Citizen's sentence, condition and absence from
\* the grid as they are; only the Citizen's own commit ends its being
\* Jailed, and within a step no Citizen commits after a Security has.
C29_ArrestedOnce ==
    [][ /\ \A a \in Securities : SecurityCommits(a) =>
              /\ Cardinality(NewlyJailed) <= 1
              /\ \A c \in Citizens : condition[c] = "Jailed" =>
                    /\ jail_sentence'[c] = jail_sentence[c]
                    /\ condition'[c] = "Jailed"
                    /\ pos'[c] = pos[c]
        /\ \A c \in Citizens :
              condition[c] = "Jailed" /\ condition'[c] # "Jailed" => CitizenCommits(c)
        /\ (\E a \in Securities : SecurityCommits(a)) /\ pc' = "advance" =>
              IsSecurity(idx') ]_vars

\* the second Security commits in a step in which the first has arrested the
\* Citizen: a full sentence can only have been given in this step, since
\* the Citizen's own commit would have shortened an older one
C29_Witness ==
    /\ security_count = 2
    /\ \E a \in Securities, c \in Citizens :
          /\ SecurityCommits(a) /\ a - 1 \in Securities
          /\ condition[c] = "Jailed" /\ pos[c] = NoPos
          /\ jail_sentence[c] = max_jail_term

\* where the grid and the actor's own pos have actor b
Placement(g, p, b) == <<p[b], { cell \in Cells : b \in g[cell] }>>

\* the step of the model changes where actor b is
Displaced(b) == Placement(grid', pos', b) # Placement(grid, pos, b)

\* C25 as stated: the grid changes only during the commit-phase, and an
\* actor's placement is changed by that actor's own commit only.
C25_OwnCommitOnly ==
    [][ /\ pc # "advance" => grid' = grid /\ pos' = pos
        /\ \A b \in Agents : Displaced(b) => pc = "advance" /\ idx = b ]_vars

\* C25, amended: the grid changes only during the commit-phase; an actor's
\* placement is changed by its own commit or, for a Citizen, by the commit
\* of the Security that arrests it, which takes it off the grid.
C25_OwnCommitOrArrest ==
    [][ /\ pc # "advance" => grid' = grid /\ pos' = pos
        /\ \A b \in Agents : Displaced(b) =>
              \/ pc = "advance" /\ idx = b
              \/ SecurityCommits(idx) /\ b \in NewlyJailed
        /\ \A b \in NewlyJailed : pos'[b] = NoPos /\ OffGrid(grid', b) ]_vars

\* all commits of a step are done and a Citizen arrested in it is off the
\* grid, taken off by a Security's commit
C25_Witness ==
    /\ pc = "tail"
    /\ \E c \in Citizens : /\ condition[c] = "Jailed"
                           /\ jail_sentence[c] = max_jail_term
                           /\ Placement(grid, pos, c) = <<NoPos, {}>>

\* the Citizen followed is about to run step() while jailed
JailedDecides ==
    /\ pc = "citizen_step"
    /\ citizen.jail_sentence > 0 \/ citizen.condition = "Jailed"

\* C24: the decide-phase of a jailed Citizen writes flip (False) and nothing
\* else: the pending condition, the census counts, the activation and the
\* two levels and the last draw stay as they were.
C24_JailedDecidesNothing ==
    [][ JailedDecides =>
          /\ citizen'.flip = "False"
          /\ citizen' = [citizen EXCEPT !.flip = "False"] ]_vars

\* a Citizen arrested with a sentence of 0, its flip still set from the
\* decision that made it Active, has run its jailed step()
C24_Witness ==
    /\ pc = "citizen_advance"
    /\ citizen.condition = "Jailed" /\ citizen.jail_sentence = 0
    /\ citizen.flip = "False" /\ citizen.ever_flipped
    /\ citizen.update_condition = "Active"

\* C27: ever_flipped never goes back to false, and it is true exactly when
\* flip has been true at this or an earlier decide-phase, the one at
\* construction included.
C27_EverFlipped ==
    /\ citizen.ever_flipped <=> citizen.flip = "True"
    /\ [][ /\ citizen.ever_flipped => citizen'.ever_flipped
           /\ citizen'.ever_flipped <=>
                 citizen.ever_flipped \/ citizen'.flip = "True" ]_vars

\* flip is false again after a later decide-phase, ever_flipped still true
C27_Witness ==
    /\ pc = "citizen_advance"
    /\ citizen.ever_flipped /\ citizen.flip = "False"
    /\ citizen.condition # "Jailed" /\ citizen.update_condition = "Support"

\* C31: with exclusive cells and no more actors than cells, no cell ever
\* holds two actors: not after construction, not after any step, and not
\* in between, whatever was placed, moved, arrested or released.
C31_OneActorPerCell ==
    (~multiple_agents_per_cell /\ NumAgents <= width * height) =>
        \A cell \in Cells : \A a, b \in grid[cell] : a = b

\* exclusive cells, as many actors as cells, and after two steps one
\* Citizen is in jail while the others have had room to move
C31_Witness ==
    /\ StepBoundary /\ iteration >= 2
    /\ ~multiple_agents_per_cell /\ NumAgents = width * height
    /\ \E c \in Citizens : condition[c] = "Jailed" /\ pos[c] = NoPos
    /\ \E a \in Agents : pos[a] # NoPos

\* C32: whatever citizen_count the arguments yield, 0 included, the
\* divisions by it (the revolution check, speed of spread) are defined: no
\* call ends in a ZeroDivisionError and a simulation is there to be stepped.
C32_DivisorNeverZero ==
    /\ raised # "ZeroDivisionError"
    /\ citizen_count = 0 => pc # "init_raised"

\* what holds instead: without Citizens the constructor itself fails on the
\* division, so step() is only ever run with a divisor of at least 1
C32_StepsOnlyWithCitizens ==
    /\ citizen_count = 0 <=> raised = "ZeroDivisionError"
    /\ pc \in {"idle", "step", "advance", "tail"} => citizen_count > 0

====
